---- MODULE Spec2Model ----
(***************************************************************************)
(* Model of django_binance_trader: the Order lifecycle, the TradingSession *)
(* and BuySellPair records of trading/models.py and the venue status       *)
(* mapping of trading/exchanges/binance.py.                                *)
(*                                                                         *)
(* Values keep their Python representation.  A status or side held in      *)
(* memory is either a member of the plain Enum classes of trading/enums.py *)
(* or the integer read back from the integer column of the record; a       *)
(* member never compares equal to an integer.  The storage engine is       *)
(* modelled by the contract the code relies on: save() stores the row of   *)
(* the record (integer columns hold the numeric value of the field) and    *)
(* objects.get(pk) returns the stored row.                                 *)
(***************************************************************************)
EXTENDS Integers, Sequences, FiniteSets, TLC

\* ------------------------------------------------------------------ bounds
MaxClock == 1
MaxQty == 1
MaxPrice == 2
MaxTimeout == 1
MaxValue == 12
MaxCycles == 2

\* The population of objects the model creates.
Orders == {"o1", "o2", "o3"}
TrackedOrders == {"o1"}
Sessions == {"s1"}
Pairs == {"p1"}
Symbols == {"BNBBTC", "SOMETHING"}
Exchanges == {"ex1", "ex2"}
VenueOrderIds == {"id1"}

\* ------------------------------------------------------------ Python values
None == <<>>
Some(x) == <<x>>

Member(n) == [k |-> "enum", v |-> n]
Value(n) == [k |-> "int", v |-> n]

PENDING == Member(1)
PLACED == Member(2)
FILLING == Member(3)
COMPLETED == Member(4)
CANCELLED == Member(5)
CANCELLED_PARTIAL == Member(6)

ORDER_STATE_TERMINAL_VALUES == {Value(COMPLETED.v), Value(CANCELLED.v), Value(CANCELLED_PARTIAL.v)}

BUY == Member(1)
SELL == Member(2)

\* OrderState(x): the member with the value of x, for a member or an integer.
OrderState(x) == Member(x.v)

\* ------------------------------------------------------------------- state
VARIABLES
    orders,       \* the Order objects in memory
    db_orders,    \* the stored Order rows
    sessions,     \* the TradingSession objects in memory
    db_sessions,  \* the stored TradingSession rows
    pairs,        \* the BuySellPair objects in memory
    db_pairs,     \* the stored BuySellPair rows
    now,          \* the clock read by timezone.now() and time.time()
    loop,         \* the position of block_until_complete_or_timeout
    binance,      \* the BinanceExchange: symbol metadata and the rounding setting
    task,         \* the position and the locals of the trade_symbol task
    last          \* the outcome of the last operation

vars ==
    <<orders, db_orders, sessions, db_sessions, pairs, db_pairs, now, loop, binance, task, last>>

Outcome(op, target, err, ret) == [op |-> op, target |-> target, err |-> err, ret |-> ret]

\* What an operation did on the venue: the number of status queries and of
\* cancel_order calls it has made, and the answer to its last status query.
VenueCalls(queries, cancels, response) ==
    Some([queries |-> queries, cancels |-> cancels, response |-> response])

NoOrder ==
    [exists |-> FALSE, pk |-> None, status |-> PENDING, side |-> BUY, price |-> None,
     quantity |-> MaxQty, quantity_filled |-> None, time_placed |-> None,
     time_closed |-> None, exchange_order_id |-> None]

\* The row of an Order: the integer columns hold the numeric value.
OrderRow(m) ==
    [status |-> Value(m.status.v), side |-> Value(m.side.v), price |-> m.price,
     quantity |-> m.quantity, quantity_filled |-> m.quantity_filled,
     time_placed |-> m.time_placed, time_closed |-> m.time_closed,
     exchange_order_id |-> m.exchange_order_id]

\* Order.is_closed: membership of the status in the tuple of integer values.
Order_is_closed(status) == status \in ORDER_STATE_TERMINAL_VALUES

\* A save without the test of the stored status.
SaveSkipsClosedCheck(o, m, stored, t) ==
    [err |-> "ok", m |-> [m EXCEPT !.pk = Some(o)], row |-> Some(OrderRow(m))]

\* Order.save on object m, whose stored row (if any) is stored, at time t.
Order_save(o, m, stored, t) ==
    IF m.pk = None
    THEN [err |-> "ok", m |-> [m EXCEPT !.pk = Some(o)], row |-> Some(OrderRow(m))]
    ELSE LET old_self == stored[1] IN
         IF Order_is_closed(old_self.status)
         THEN [err |-> "ValidationError", m |-> m, row |-> stored]
         ELSE LET m2 == IF ~Order_is_closed(old_self.status) /\ Order_is_closed(m.status)
                        THEN [m EXCEPT !.time_closed = Some(t)]
                        ELSE m
              IN [err |-> "ok", m |-> m2, row |-> Some(OrderRow(m2))]

\* ------------------------------------------------------------------- venue
VenueStatuses ==
    {"NEW", "PARTIALLY_FILLED", "FILLED", "CANCELED", "EXPIRED", "PENDING_CANCEL", "REJECTED"}

\* What client.get_order can answer: a status of the vocabulary, a status outside
\* it, or a BinanceAPIException.
StatusResponses(Statuses, Qtys, QuotedPrices) ==
    [kind : {"status"}, status : Statuses, executedQty : Qtys, price : QuotedPrices]

VenueResponses ==
    StatusResponses(VenueStatuses \cup {"UNKNOWN"}, 0..MaxQty, {MaxPrice})
    \cup {[kind |-> "exception", status |-> "NEW", executedQty |-> 0, price |-> MaxPrice]}

\* A status mapping that ignores last_state on CANCELED / EXPIRED.
CancelledIgnoresLastState(response_status, last_state) ==
    CASE response_status = "NEW" -> PLACED
      [] response_status = "PARTIALLY_FILLED" -> FILLING
      [] response_status = "FILLED" -> COMPLETED
      [] response_status \in {"CANCELED", "EXPIRED"} -> CANCELLED_PARTIAL
      [] response_status = "PENDING_CANCEL" -> last_state
      [] response_status = "REJECTED" -> CANCELLED

\* A status mapping that answers PLACED on PENDING_CANCEL.
PendingCancelResetsToPlaced(response_status, last_state) ==
    CASE response_status = "NEW" -> PLACED
      [] response_status = "PARTIALLY_FILLED" -> FILLING
      [] response_status = "FILLED" -> COMPLETED
      [] response_status \in {"CANCELED", "EXPIRED"} ->
            IF last_state = FILLING THEN CANCELLED_PARTIAL ELSE CANCELLED
      [] response_status = "PENDING_CANCEL" -> PLACED
      [] response_status = "REJECTED" -> CANCELLED

\* BinanceExchange.get_order_status: the status it maps a known venue status to.
get_order_status(response_status, last_state) ==
    CASE response_status = "NEW" -> PLACED
      [] response_status = "PARTIALLY_FILLED" -> FILLING
      [] response_status = "FILLED" -> COMPLETED
      [] response_status \in {"CANCELED", "EXPIRED"} ->
            IF last_state = FILLING THEN CANCELLED_PARTIAL ELSE CANCELLED
      [] response_status = "PENDING_CANCEL" -> last_state
      [] response_status = "REJECTED" -> CANCELLED

\* An update that takes a status outside the vocabulary for a cancellation.
UnknownDefaultsToCancelled(m, r) ==
    IF r.kind = "exception"
    THEN [err |-> "APIError", m |-> m]
    ELSE [err |-> "ok",
          m |-> [m EXCEPT !.status = IF r.status \in VenueStatuses
                                     THEN get_order_status(r.status, OrderState(m.status))
                                     ELSE CANCELLED,
                          !.quantity_filled = Some(r.executedQty)]]

\* Order.update_from_exchange on object m with the venue's answer r.
update_from_exchange(m, r) ==
    IF r.kind = "exception" \/ r.status \notin VenueStatuses
    THEN [err |-> "APIError", m |-> m]
    ELSE LET new_status == get_order_status(r.status, OrderState(m.status))
             m1 == [m EXCEPT !.status = new_status, !.quantity_filled = Some(r.executedQty)]
         IN [err |-> "ok",
             m |-> IF m1.price \in {None, Some(0)}
                      /\ m1.status \in {CANCELLED_PARTIAL, COMPLETED}
                   THEN [m1 EXCEPT !.price = Some(r.price)]
                   ELSE m1]

\* ------------------------------------------------------------ Order actions
\* Order(trading_session=session, side=..., price=..., quantity=...)
Order_init(o, Prices) ==
    /\ loop = None
    /\ ~orders[o].exists
    /\ \E side \in {BUY, SELL}, price \in Prices :
          orders' = [orders EXCEPT ![o] =
                        [NoOrder EXCEPT !.exists = TRUE, !.side = side, !.price = price]]
    /\ last' = Outcome("Order", o, "ok", None)
    /\ UNCHANGED <<task, binance, db_orders, sessions, db_sessions, pairs, db_pairs, now, loop>>

\* order.save() called by the owner of the object.
Order_save_call(o) ==
    /\ loop = None
    /\ orders[o].exists
    /\ LET r == Order_save(o, orders[o], db_orders[o], now) IN
          /\ orders' = [orders EXCEPT ![o] = r.m]
          /\ db_orders' = [db_orders EXCEPT ![o] = r.row]
          /\ last' = Outcome("Order.save", o, r.err, None)
    /\ UNCHANGED <<task, binance, sessions, db_sessions, pairs, db_pairs, now, loop>>

\* The object is read back from its stored row (objects.get(pk=...)).
Order_get(o) ==
    /\ loop = None
    /\ orders[o].exists
    /\ orders[o].pk # None
    /\ LET row == db_orders[o][1] IN
          orders' = [orders EXCEPT ![o] =
                        [exists |-> TRUE, pk |-> orders[o].pk, status |-> row.status,
                         side |-> row.side, price |-> row.price, quantity |-> row.quantity,
                         quantity_filled |-> row.quantity_filled,
                         time_placed |-> row.time_placed, time_closed |-> row.time_closed,
                         exchange_order_id |-> row.exchange_order_id]]
    /\ last' = Outcome("Order.get", o, "ok", None)
    /\ UNCHANGED <<task, binance, db_orders, sessions, db_sessions, pairs, db_pairs, now, loop>>

\* Order.update_from_exchange(exchange), the venue answering from Responses.
Order_update_from_exchange(o, Responses) ==
    /\ loop = None
    /\ orders[o].exists
    /\ \E r \in Responses :
          LET u == update_from_exchange(orders[o], r) IN
             /\ orders' = [orders EXCEPT ![o] = u.m]
             /\ last' = Outcome("update_from_exchange", o, u.err, VenueCalls(1, 0, Some(r)))
    /\ UNCHANGED <<task, binance, db_orders, sessions, db_sessions, pairs, db_pairs, now, loop>>

\* What a placement call on the venue can do: return an order id or raise.
PlacementOutcomes(Ids) ==
    [kind : {"id"}, id : Ids] \cup {[kind |-> "raise", id |-> "id1"]}

\* A limit placement that marks the order PLACED before the venue has answered and
\* takes a venue error for a rejection it can ignore.
PlaceLimitSwallowsVenueError(o, m, stored, t, v) ==
    IF Order_is_closed(m.status) \/ m.price = None
    THEN [err |-> "ValidationError", m |-> m, row |-> stored, sent |-> FALSE]
    ELSE LET m1 == IF m.side \in {BUY, SELL} /\ v.kind = "id"
                   THEN [m EXCEPT !.exchange_order_id = Some(v.id)]
                   ELSE m
             m2 == [m1 EXCEPT !.status = PLACED, !.time_placed = Some(t)]
             r == Order_save(o, m2, stored, t)
         IN [err |-> r.err, m |-> r.m, row |-> r.row, sent |-> m.side \in {BUY, SELL}]

\* Order.place_limit on object m; v is what the venue does if it is called.
place_limit(o, m, stored, t, v) ==
    IF Order_is_closed(m.status)
    THEN [err |-> "ValidationError", m |-> m, row |-> stored, sent |-> FALSE]
    ELSE IF m.price = None
    THEN [err |-> "ValidationError", m |-> m, row |-> stored, sent |-> FALSE]
    ELSE IF m.side \in {BUY, SELL} /\ v.kind = "raise"
    THEN [err |-> "APIError", m |-> m, row |-> stored, sent |-> TRUE]
    ELSE LET m1 == IF m.side \in {BUY, SELL}
                   THEN [m EXCEPT !.exchange_order_id = Some(v.id)]
                   ELSE m
             m2 == [m1 EXCEPT !.status = PLACED, !.time_placed = Some(t)]
             r == Order_save(o, m2, stored, t)
         IN [err |-> r.err, m |-> r.m, row |-> r.row, sent |-> m.side \in {BUY, SELL}]

\* Order.place_market on object m; v is what the venue does if it is called.
place_market(o, m, stored, t, v) ==
    IF Order_is_closed(m.status)
    THEN [err |-> "ValidationError", m |-> m, row |-> stored, sent |-> FALSE]
    ELSE IF m.side \notin {BUY, SELL}
    THEN [err |-> "ValidationError", m |-> m, row |-> stored, sent |-> FALSE]
    ELSE IF v.kind = "raise"
    THEN [err |-> "APIError", m |-> m, row |-> stored, sent |-> TRUE]
    ELSE LET m2 == [m EXCEPT !.exchange_order_id = Some(v.id), !.status = PLACED,
                             !.time_placed = Some(t)]
             r == Order_save(o, m2, stored, t)
         IN [err |-> r.err, m |-> r.m, row |-> r.row, sent |-> TRUE]

\* Order.cancel on object m; c is what exchange.cancel_order does, r the venue's
\* answer to the status query that follows.
cancel(m, c, r) ==
    IF Order_is_closed(m.status)
    THEN [err |-> "ValidationError", m |-> m, sent |-> FALSE, queried |-> FALSE]
    ELSE IF c = "raise"
    THEN [err |-> "APIError", m |-> m, sent |-> TRUE, queried |-> FALSE]
    ELSE LET u == update_from_exchange(m, r)
         IN [err |-> u.err, m |-> u.m, sent |-> TRUE, queried |-> TRUE]

\* What a placement did on the venue: whether a request was sent, and the order id
\* the venue answered with.
Submitted(r, v) ==
    Some([sent |-> r.sent,
          orderId |-> IF r.sent /\ v.kind = "id" THEN Some(v.id) ELSE None])

\* Order.place_limit(exchange)
Order_place_limit(o, Ids) ==
    /\ loop = None
    /\ orders[o].exists
    /\ \E v \in PlacementOutcomes(Ids) :
          LET r == place_limit(o, orders[o], db_orders[o], now, v) IN
             /\ orders' = [orders EXCEPT ![o] = r.m]
             /\ db_orders' = [db_orders EXCEPT ![o] = r.row]
             /\ last' = Outcome("place_limit", o, r.err, Submitted(r, v))
    /\ UNCHANGED <<task, binance, sessions, db_sessions, pairs, db_pairs, now, loop>>

\* Order.place_market(exchange)
Order_place_market(o, Ids) ==
    /\ loop = None
    /\ orders[o].exists
    /\ \E v \in PlacementOutcomes(Ids) :
          LET r == place_market(o, orders[o], db_orders[o], now, v) IN
             /\ orders' = [orders EXCEPT ![o] = r.m]
             /\ db_orders' = [db_orders EXCEPT ![o] = r.row]
             /\ last' = Outcome("place_market", o, r.err, Submitted(r, v))
    /\ UNCHANGED <<task, binance, sessions, db_sessions, pairs, db_pairs, now, loop>>

\* Order.cancel(exchange)
Order_cancel(o) ==
    /\ loop = None
    /\ orders[o].exists
    /\ \E c \in {"ok", "raise"}, r \in VenueResponses :
          LET x == cancel(orders[o], c, r) IN
             /\ orders' = [orders EXCEPT ![o] = x.m]
             /\ last' = Outcome("cancel", o, x.err,
                                VenueCalls(IF x.queried THEN 1 ELSE 0,
                                           IF x.sent THEN 1 ELSE 0,
                                           IF x.queried THEN Some(r) ELSE None))
    /\ UNCHANGED <<task, binance, db_orders, sessions, db_sessions, pairs, db_pairs, now, loop>>

\* Order.block_until_complete_or_timeout(exchange, timeout): entry.  The loop
\* position holds the time elapsed since start_time, in sleep intervals.
Block_start(o) ==
    /\ loop = None
    /\ orders[o].exists
    /\ \E timeout \in 0..MaxTimeout :
          loop' = Some([order |-> o, timeout |-> timeout, elapsed |-> 0, queries |-> 0,
                        pc |-> "poll"])
    /\ last' = Outcome("block_until_complete_or_timeout", o, "running", VenueCalls(0, 0, None))
    /\ UNCHANGED <<task, binance, orders, db_orders, sessions, db_sessions, pairs, db_pairs, now>>

\* ("Buy", "Sell")[self.side]: a tuple is indexed by an integer below its length;
\* a member of OrderSide is no index.
action_name(side) ==
    IF side.k = "enum" THEN "TypeError"
    ELSE IF side.v \notin {0, 1} THEN "IndexError"
    ELSE "ok"

\* A loop that never takes the timeout branch.
NeverTimesOut(duration, timeout) == FALSE

\* if duration > timeout:
timed_out(duration, timeout) == duration > timeout

\* One pass of the loop body: the status query, the label of the side, the check
\* of the status and the check of the elapsed time; the query itself may take time.
Block_poll ==
    /\ loop # None
    /\ loop[1].pc = "poll"
    /\ LET l == loop[1]
           o == l.order
       IN \E r \in VenueResponses, took \in 0..1 :
          LET u == update_from_exchange(orders[o], r)
              duration == l.elapsed + took
              calls == VenueCalls(l.queries + 1, 0, Some(r))
          IN /\ orders' = [orders EXCEPT ![o] = u.m]
             /\ IF u.err # "ok"
                THEN /\ loop' = None
                     /\ last' = Outcome("block_until_complete_or_timeout", o, u.err, calls)
                ELSE IF action_name(u.m.side) # "ok"
                THEN /\ loop' = None
                     /\ last' = Outcome("block_until_complete_or_timeout", o,
                                        action_name(u.m.side), calls)
                ELSE IF u.m.status = COMPLETED
                THEN /\ loop' = None
                     /\ last' = Outcome("block_until_complete_or_timeout", o, "ok", calls)
                ELSE /\ loop' = Some([l EXCEPT !.elapsed = duration,
                                               !.queries = @ + 1,
                                               !.pc = IF timed_out(duration, l.timeout)
                                                      THEN "cancel" ELSE "sleep"])
                     /\ last' = Outcome("block_until_complete_or_timeout", o, "running",
                                        calls)
    /\ UNCHANGED <<task, binance, db_orders, sessions, db_sessions, pairs, db_pairs, now>>

\* time.sleep(0.1)
Block_sleep ==
    /\ loop # None
    /\ loop[1].pc = "sleep"
    /\ loop' = Some([loop[1] EXCEPT !.elapsed = @ + 1, !.pc = "poll"])
    /\ last' = Outcome("block_until_complete_or_timeout", loop[1].order, "running",
                       VenueCalls(loop[1].queries, 0, None))
    /\ UNCHANGED <<task, binance, orders, db_orders, sessions, db_sessions, pairs, db_pairs, now>>

\* The timeout branch: self.cancel(exchange), then return.
Block_cancel ==
    /\ loop # None
    /\ loop[1].pc = "cancel"
    /\ LET o == loop[1].order IN
       \E c \in {"ok", "raise"}, r \in VenueResponses :
          LET x == cancel(orders[o], c, r) IN
             /\ orders' = [orders EXCEPT ![o] = x.m]
             /\ last' = Outcome("block_until_complete_or_timeout", o, x.err,
                                VenueCalls(loop[1].queries + (IF x.queried THEN 1 ELSE 0),
                                           IF x.sent THEN 1 ELSE 0,
                                           IF x.queried THEN Some(r) ELSE None))
    /\ loop' = None
    /\ UNCHANGED <<task, binance, db_orders, sessions, db_sessions, pairs, db_pairs, now>>

\* The clock advances.
Tick ==
    /\ now < MaxClock
    /\ now' = now + 1
    /\ last' = Outcome("tick", "", "ok", None)
    /\ UNCHANGED <<task, binance, orders, db_orders, sessions, db_sessions, pairs, db_pairs, loop>>

\* ---------------------------------------------------------- TradingSession
NoSession ==
    [exists |-> FALSE, pk |-> None, symbol |-> "BNBBTC", time_opened |-> None,
     time_closed |-> None, exchange |-> None]

SessionRow(m) ==
    [symbol |-> m.symbol, time_opened |-> m.time_opened, time_closed |-> m.time_closed]

\* TradingSession.is_open
is_open(time_closed) == time_closed = None

\* A save without the test of the stored time_closed.
SessionSaveSkipsClosedCheck(s, m, stored, t) ==
    LET m1 == IF m.pk = None THEN [m EXCEPT !.pk = Some(s), !.time_opened = Some(t)] ELSE m
    IN [err |-> "ok", m |-> m1, row |-> Some(SessionRow(m1))]

\* TradingSession.save on object m, whose stored row (if any) is stored, at time t;
\* time_opened is stamped when the row is first stored (auto_now_add).
TradingSession_save(s, m, stored, t) ==
    IF m.pk # None /\ ~is_open(stored[1].time_closed)
    THEN [err |-> "ValidationError", m |-> m, row |-> stored]
    ELSE LET m1 == IF m.pk = None
                   THEN [m EXCEPT !.pk = Some(s), !.time_opened = Some(t)]
                   ELSE m
         IN [err |-> "ok", m |-> m1, row |-> Some(SessionRow(m1))]

\* A setter that assigns whatever the handle holds.
ExchangeSetterOverwrites(m, value) == [err |-> "ok", m |-> [m EXCEPT !.exchange = value]]

\* The setter of TradingSession.exchange.
exchange_setter(m, value) ==
    IF m.exchange # None
    THEN [err |-> "ValidationError", m |-> m]
    ELSE [err |-> "ok", m |-> [m EXCEPT !.exchange = value]]

\* TradingSession(symbol=...)
TradingSession_init(s) ==
    /\ loop = None
    /\ ~sessions[s].exists
    /\ \E symbol \in Symbols :
          sessions' = [sessions EXCEPT ![s] = [NoSession EXCEPT !.exists = TRUE,
                                                                !.symbol = symbol]]
    /\ last' = Outcome("TradingSession", s, "ok", None)
    /\ UNCHANGED <<task, binance, orders, db_orders, db_sessions, pairs, db_pairs, now, loop>>

\* TradingSession.open(exchange, symbol)
TradingSession_open(s) ==
    /\ loop = None
    /\ ~sessions[s].exists
    /\ \E symbol \in Symbols, exchange \in Exchanges :
          LET session == [NoSession EXCEPT !.exists = TRUE, !.symbol = symbol]
              r == TradingSession_save(s, session, db_sessions[s], now)
              x == exchange_setter(r.m, Some(exchange))
          IN /\ sessions' = [sessions EXCEPT ![s] = x.m]
             /\ db_sessions' = [db_sessions EXCEPT ![s] = r.row]
             /\ last' = Outcome("TradingSession.open", s, x.err, Some(exchange))
    /\ UNCHANGED <<task, binance, orders, db_orders, pairs, db_pairs, now, loop>>

\* session.save()
TradingSession_save_call(s) ==
    /\ loop = None
    /\ sessions[s].exists
    /\ LET r == TradingSession_save(s, sessions[s], db_sessions[s], now) IN
          /\ sessions' = [sessions EXCEPT ![s] = r.m]
          /\ db_sessions' = [db_sessions EXCEPT ![s] = r.row]
          /\ last' = Outcome("TradingSession.save", s, r.err, None)
    /\ UNCHANGED <<task, binance, orders, db_orders, pairs, db_pairs, now, loop>>

\* TradingSession.close()
TradingSession_close(s) ==
    /\ loop = None
    /\ sessions[s].exists
    /\ LET m1 == [sessions[s] EXCEPT !.time_closed = Some(now)]
           r == TradingSession_save(s, m1, db_sessions[s], now)
       IN /\ sessions' = [sessions EXCEPT ![s] = r.m]
          /\ db_sessions' = [db_sessions EXCEPT ![s] = r.row]
          /\ last' = Outcome("TradingSession.close", s, r.err, None)
    /\ UNCHANGED <<task, binance, orders, db_orders, pairs, db_pairs, now, loop>>

\* session.symbol = ... ; session.time_closed = None: plain attribute assignments.
TradingSession_assign(s) ==
    /\ loop = None
    /\ sessions[s].exists
    /\ \/ \E symbol \in Symbols :
             sessions' = [sessions EXCEPT ![s].symbol = symbol]
       \/ sessions' = [sessions EXCEPT ![s].time_closed = None]
    /\ last' = Outcome("assign", s, "ok", None)
    /\ UNCHANGED <<task, binance, orders, db_orders, db_sessions, pairs, db_pairs, now, loop>>

\* session.exchange = value
TradingSession_set_exchange(s) ==
    /\ loop = None
    /\ sessions[s].exists
    /\ \E exchange \in Exchanges :
          LET x == exchange_setter(sessions[s], Some(exchange)) IN
             /\ sessions' = [sessions EXCEPT ![s] = x.m]
             /\ last' = Outcome("set_exchange", s, x.err, Some(exchange))
    /\ UNCHANGED <<task, binance, orders, db_orders, db_sessions, pairs, db_pairs, now, loop>>

\* ------------------------------------------------------------- BuySellPair
NoPair ==
    [exists |-> FALSE, pk |-> None, trading_session |-> None, first_order |-> None,
     second_order |-> None]

PairRow(m) ==
    [trading_session |-> m.trading_session, first_order |-> m.first_order,
     second_order |-> m.second_order]

\* BuySellPair.open(session, order) creating pair p: the name session is rebound to
\* the new pair before trading_session is assigned, so the reference stored is the
\* pair itself and not the session s that was passed.
open(p, session, s, order, o) ==
    IF ~is_open(session.time_closed)
    THEN [err |-> "ValidationError", m |-> NoPair, row |-> None]
    ELSE IF order.status # PENDING
    THEN [err |-> "ValidationError", m |-> NoPair, row |-> None]
    ELSE LET m == [exists |-> TRUE, pk |-> Some(p), trading_session |-> Some(p),
                   first_order |-> Some(o), second_order |-> None]
         IN [err |-> "ok", m |-> m, row |-> Some(PairRow(m))]

\* BuySellPair.close(order) on pair m with opening order first_order.
close(m, first_order, order, o) ==
    IF first_order.status = CANCELLED
    THEN [err |-> "ValidationError", m |-> m]
    ELSE IF ~Order_is_closed(first_order.status)
    THEN [err |-> "ValidationError", m |-> m]
    ELSE IF Order_is_closed(order.status)
    THEN [err |-> "ValidationError", m |-> m]
    ELSE IF first_order.side = order.side
    THEN [err |-> "ValidationError", m |-> m]
    ELSE [err |-> "ok", m |-> [m EXCEPT !.second_order = Some(o)]]

\* BuySellPair.is_closed; second_order is None or Some(order object).  The value
\* is "True", "False" or "None" (the branch that falls off the end).
is_closed(first_order, second_order) ==
    IF first_order.status \in {COMPLETED, CANCELLED_PARTIAL}
    THEN IF second_order = None
         THEN [err |-> "AttributeError", ret |-> None]
         ELSE IF Order_is_closed(second_order[1].status)
         THEN [err |-> "ok", ret |-> Some("True")]
         ELSE [err |-> "ok", ret |-> Some("None")]
    ELSE IF first_order.status = CANCELLED
    THEN [err |-> "ok", ret |-> Some("True")]
    ELSE [err |-> "ok", ret |-> Some("False")]

\* BuySellPair.profit; the value is None or the exact fraction num / den of
\*   second.quantity_filled * second.price / first.quantity_filled * first.price - 1
\* evaluated left to right.
profit(first_order, second_order) ==
    LET c == is_closed(first_order, second_order) IN
    IF c.err # "ok"
    THEN [err |-> c.err, ret |-> None]
    ELSE IF c.ret # Some("True")
    THEN [err |-> "ok", ret |-> None]
    ELSE IF second_order = None
    THEN [err |-> "AttributeError", ret |-> None]
    ELSE IF None \in {second_order[1].quantity_filled, second_order[1].price,
                      first_order.quantity_filled, first_order.price}
    THEN [err |-> "TypeError", ret |-> None]
    ELSE IF first_order.quantity_filled[1] = 0
    THEN [err |-> "ArithmeticError", ret |-> None]
    ELSE LET cq == second_order[1].quantity_filled[1]
             cp == second_order[1].price[1]
             oq == first_order.quantity_filled[1]
             op == first_order.price[1]
         IN [err |-> "ok", ret |-> Some([num |-> cq * cp * op - oq, den |-> oq])]

OrderOf(ref) == IF ref = None THEN None ELSE Some(orders[ref[1]])

\* BuySellPair.open(session, order)
BuySellPair_open(p, s, o) ==
    /\ loop = None
    /\ ~pairs[p].exists
    /\ sessions[s].exists
    /\ orders[o].exists
    /\ LET r == open(p, sessions[s], s, orders[o], o) IN
          /\ pairs' = [pairs EXCEPT ![p] = r.m]
          /\ db_pairs' = [db_pairs EXCEPT ![p] = r.row]
          /\ last' = Outcome("BuySellPair.open", p, r.err, <<s, o>>)
    /\ UNCHANGED <<task, binance, orders, db_orders, sessions, db_sessions, now, loop>>

\* pair.close(order)
BuySellPair_close(p, o) ==
    /\ loop = None
    /\ pairs[p].exists
    /\ orders[o].exists
    /\ LET r == close(pairs[p], orders[pairs[p].first_order[1]], orders[o], o) IN
          /\ pairs' = [pairs EXCEPT ![p] = r.m]
          /\ last' = Outcome("BuySellPair.close", p, r.err, Some(o))
    /\ UNCHANGED <<task, binance, orders, db_orders, sessions, db_sessions, db_pairs, now, loop>>

\* pair.is_closed
BuySellPair_is_closed(p) ==
    /\ loop = None
    /\ pairs[p].exists
    /\ LET r == is_closed(orders[pairs[p].first_order[1]], OrderOf(pairs[p].second_order)) IN
          last' = Outcome("is_closed", p, r.err, r.ret)
    /\ UNCHANGED <<task, binance, orders, db_orders, sessions, db_sessions, pairs, db_pairs, now, loop>>

\* pair.profit()
BuySellPair_profit(p) ==
    /\ loop = None
    /\ pairs[p].exists
    /\ LET r == profit(orders[pairs[p].first_order[1]], OrderOf(pairs[p].second_order)) IN
          last' = Outcome("profit", p, r.err, r.ret)
    /\ UNCHANGED <<task, binance, orders, db_orders, sessions, db_sessions, pairs, db_pairs, now, loop>>

\* --------------------------------------------------------------- exchange
\* Decimal prices and quantities are counted in units of one decimal place (an
\* integer n stands for n units).  A step of the symbol metadata is a Decimal made
\* from the venue's string with its trailing zeros stripped: it has a value and an
\* exponent, and quantum is the power of ten of that exponent, in units.
Values == 1..MaxValue

\* "0.00001", "0.00005", "0.00010" (stripped to "0.0001"), and, counting in whole
\* units, "10.00000000" (stripped to "10", exponent 0).
StepsOfVenue ==
    {[value |-> 1, quantum |-> 1], [value |-> 5, quantum |-> 1],
     [value |-> 10, quantum |-> 10], [value |-> 10, quantum |-> 1]}

\* settings.TRADING_MAXIMUM_ROUNDING_ERROR as a fraction <<numerator, denominator>>.
Thresholds == {<<1, 100>>, <<1, 10>>, <<1, 4>>}

\* BinanceSymbol: the fields the checks read.
BinanceSymbol(min_price, max_price, price_step, min_quantity, max_quantity, quantity_step) ==
    [min_price |-> min_price, max_price |-> max_price, price_step |-> price_step,
     min_quantity |-> min_quantity, max_quantity |-> max_quantity,
     quantity_step |-> quantity_step]

\* The metadata a venue can send for the one listed symbol.
SymbolsOfVenue ==
    {BinanceSymbol(lo, hi, ps, qlo, MaxValue, qs) :
        lo \in {1, 2, 10}, hi \in {9, 10, MaxValue}, ps \in StepsOfVenue,
        qlo \in {1, 2}, qs \in {[value |-> 1, quantum |-> 1], [value |-> 10, quantum |-> 10]}}

\* BinanceExchange after update_symbols, with the rounding setting it reads.
BinanceExchange(symbol_info, threshold) ==
    [symbols |-> [n \in {"BNBBTC"} |-> symbol_info], max_rounding_error |-> threshold]

DefaultExchange ==
    BinanceExchange(BinanceSymbol(1, MaxValue, [value |-> 1, quantum |-> 1],
                                  1, MaxValue, [value |-> 1, quantum |-> 1]), <<1, 10>>)

Abs(x) == IF x < 0 THEN -x ELSE x

\* A rounding that always moves up to the next multiple.
QuantizeAlwaysUp(x, step) == (x \div step.quantum + 1) * step.quantum

\* Decimal.quantize(step) in the default context: the value is rounded to the
\* exponent of step, halves to the even neighbour.
quantize(x, step) ==
    LET q == step.quantum
        n == x \div q
        r == x % q
    IN IF 2 * r < q THEN n * q
       ELSE IF 2 * r > q THEN (n + 1) * q
       ELSE IF n % 2 = 0 THEN n * q ELSE (n + 1) * q

\* The threshold test with a strict comparison.
ExceedsRoundingStrictly(rounded, original, threshold) ==
    Abs(rounded - original) * threshold[2] > threshold[1] * original

\* rounding_error >= settings.TRADING_MAXIMUM_ROUNDING_ERROR, on exact fractions.
ExceedsRounding(rounded, original, threshold) ==
    Abs(rounded - original) * threshold[2] >= threshold[1] * original

\* BinanceExchange.check_price: UnknownSymbol, the bounds, the rounding and its
\* relative error; ret is the rounded price.
check_price(ex, symbol, price) ==
    IF symbol \notin DOMAIN ex.symbols
    THEN [err |-> "UnknownSymbol", ret |-> None]
    ELSE LET symbol_info == ex.symbols[symbol] IN
         IF price < symbol_info.min_price \/ price > symbol_info.max_price
         THEN [err |-> "OrderPriceInvalid", ret |-> None]
         ELSE LET rounded == quantize(price, symbol_info.price_step) IN
              IF ExceedsRounding(rounded, price, ex.max_rounding_error)
              THEN [err |-> "ExcessiveRoundingError", ret |-> None]
              ELSE [err |-> "ok", ret |-> Some(rounded)]

\* BinanceExchange.check_quantity
check_quantity(ex, symbol, quantity) ==
    IF symbol \notin DOMAIN ex.symbols
    THEN [err |-> "UnknownSymbol", ret |-> None]
    ELSE LET symbol_info == ex.symbols[symbol] IN
         IF quantity < symbol_info.min_quantity \/ quantity > symbol_info.max_quantity
         THEN [err |-> "LotSizeInvalid", ret |-> None]
         ELSE LET rounded == quantize(quantity, symbol_info.quantity_step) IN
              IF ExceedsRounding(rounded, quantity, ex.max_rounding_error)
              THEN [err |-> "ExcessiveRoundingError", ret |-> None]
              ELSE [err |-> "ok", ret |-> Some(rounded)]

\* What the client does with a request: it answers with an order id or raises a
\* BinanceAPIException with a message.
ClientOutcomes ==
    {[kind |-> "id", orderId |-> "id1", message |-> ""],
     [kind |-> "raise", orderId |-> "", message |-> "MIN_NOTIONAL"],
     [kind |-> "raise", orderId |-> "", message |-> "other"]}

\* BinanceExchange.process_api_error
process_api_error(message) ==
    IF message = "MIN_NOTIONAL" THEN "OrderValueTooLow" ELSE "APIError"

\* The call of the client that ends a placement: request is what the client
\* receives, ret the order id ("" for a test order).
send(request, test, c) ==
    IF c.kind = "raise"
    THEN [err |-> process_api_error(c.message), ret |-> None, request |-> Some(request)]
    ELSE [err |-> "ok", ret |-> Some(IF test THEN "" ELSE c.orderId),
          request |-> Some(request)]

\* The two limit placements: price check, quantity check, request.
place_limit_order(ex, side, symbol, quantity, price, test, c) ==
    LET p == check_price(ex, symbol, price) IN
    IF p.err # "ok"
    THEN [err |-> p.err, ret |-> None, request |-> None]
    ELSE LET q == check_quantity(ex, symbol, quantity) IN
         IF q.err # "ok"
         THEN [err |-> q.err, ret |-> None, request |-> None]
         ELSE send([side |-> side, type |-> "LIMIT", symbol |-> symbol,
                    quantity |-> q.ret[1], price |-> p.ret, test |-> test], test, c)

\* A market placement that sends the quantity as given, unchecked.
MarketSkipsQuantityCheck(ex, side, symbol, quantity, test, c) ==
    send([side |-> side, type |-> "MARKET", symbol |-> symbol,
          quantity |-> quantity, price |-> None, test |-> test], test, c)

\* The two market placements: quantity check, request.
place_market_order(ex, side, symbol, quantity, test, c) ==
    LET q == check_quantity(ex, symbol, quantity) IN
    IF q.err # "ok"
    THEN [err |-> q.err, ret |-> None, request |-> None]
    ELSE send([side |-> side, type |-> "MARKET", symbol |-> symbol,
               quantity |-> q.ret[1], price |-> None, test |-> test], test, c)

place_buy_limit_order(ex, symbol, quantity, price, test, c) ==
    place_limit_order(ex, "BUY", symbol, quantity, price, test, c)

place_sell_limit_order(ex, symbol, quantity, price, test, c) ==
    place_limit_order(ex, "SELL", symbol, quantity, price, test, c)

place_buy_market_order(ex, symbol, quantity, test, c) ==
    place_market_order(ex, "BUY", symbol, quantity, test, c)

place_sell_market_order(ex, symbol, quantity, test, c) ==
    place_market_order(ex, "SELL", symbol, quantity, test, c)

\* The exchange keeps nothing between two calls: a behaviour makes one call on the
\* metadata and the setting it starts with, and the outcome records the arguments.
Fresh == last.op = "init"

OrderVars == <<orders, db_orders, sessions, db_sessions, pairs, db_pairs, now, loop>>

\* exchange.check_price(symbol, price)
Exchange_check_price ==
    /\ Fresh
    /\ \E symbol \in Symbols, price \in Values :
          LET r == check_price(binance, symbol, price) IN
             last' = Outcome("check_price", [symbol |-> symbol, value |-> price], r.err, r.ret)
    /\ UNCHANGED <<task, binance, OrderVars>>

\* exchange.check_quantity(symbol, quantity)
Exchange_check_quantity ==
    /\ Fresh
    /\ \E symbol \in Symbols, quantity \in Values :
          LET r == check_quantity(binance, symbol, quantity) IN
             last' = Outcome("check_quantity", [symbol |-> symbol, value |-> quantity],
                             r.err, r.ret)
    /\ UNCHANGED <<task, binance, OrderVars>>

\* The quantities and prices the placements are called with.
PlacedValues == {1, 2, 8, 11, MaxValue}

\* The arguments of a placement; price is None for a market order.
PlacementArgs(symbol, quantity, price, test) ==
    [symbol |-> symbol, quantity |-> quantity, price |-> price, test |-> test]

\* The outcome of a placement: the order id returned and the request received.
Placed(r) == Some([orderId |-> r.ret, request |-> r.request])

Exchange_place_buy_limit_order ==
    /\ Fresh
    /\ \E symbol \in Symbols, quantity \in PlacedValues, price \in PlacedValues,
          test \in BOOLEAN, c \in ClientOutcomes :
          LET r == place_buy_limit_order(binance, symbol, quantity, price, test, c) IN
             last' = Outcome("place_buy_limit_order",
                             PlacementArgs(symbol, quantity, Some(price), test), r.err, Placed(r))
    /\ UNCHANGED <<task, binance, OrderVars>>

Exchange_place_sell_limit_order ==
    /\ Fresh
    /\ \E symbol \in Symbols, quantity \in PlacedValues, price \in PlacedValues,
          test \in BOOLEAN, c \in ClientOutcomes :
          LET r == place_sell_limit_order(binance, symbol, quantity, price, test, c) IN
             last' = Outcome("place_sell_limit_order",
                             PlacementArgs(symbol, quantity, Some(price), test), r.err, Placed(r))
    /\ UNCHANGED <<task, binance, OrderVars>>

Exchange_place_buy_market_order ==
    /\ Fresh
    /\ \E symbol \in Symbols, quantity \in PlacedValues, test \in BOOLEAN, c \in ClientOutcomes :
          LET r == place_buy_market_order(binance, symbol, quantity, test, c) IN
             last' = Outcome("place_buy_market_order",
                             PlacementArgs(symbol, quantity, None, test), r.err, Placed(r))
    /\ UNCHANGED <<task, binance, OrderVars>>

Exchange_place_sell_market_order ==
    /\ Fresh
    /\ \E symbol \in Symbols, quantity \in PlacedValues, test \in BOOLEAN, c \in ClientOutcomes :
          LET r == place_sell_market_order(binance, symbol, quantity, test, c) IN
             last' = Outcome("place_sell_market_order",
                             PlacementArgs(symbol, quantity, None, test), r.err, Placed(r))
    /\ UNCHANGED <<task, binance, OrderVars>>

\* ------------------------------------------------------------ trade_symbol
\* The task is followed statement by statement on the outcomes of the calls it
\* makes: a call on a session, a pair or an order returns or raises, and the
\* polling call leaves the order in one of the statuses a placed order can have.
NoTask ==
    [pc |-> "idle", aborted |-> FALSE, cycles |-> 0, orders_placed |-> 0,
     opening_status |-> PENDING, err |-> "ok"]

\* The statuses of an order that has been placed.
PlacedStatuses == {PLACED, FILLING, COMPLETED, CANCELLED, CANCELLED_PARTIAL}

\* A status test that starts over on every opening order that is not filled.
CheckStatusRetries(status) ==
    IF status \in {COMPLETED, CANCELLED_PARTIAL} THEN "close" ELSE "continue"

\* The test of the opening order's status after the polling call.
check_status(status) ==
    IF status \in {COMPLETED, CANCELLED_PARTIAL} THEN "close"
    ELSE IF status = CANCELLED THEN "continue"
    ELSE "raise"

\* The task ends: by return (err "ok") or by the exception err.
Ended(t, err) == [t EXCEPT !.pc = "ended", !.err = err]

\* The body of `while True` is entered again.
NextCycle(t) == [t EXCEPT !.pc = "open_pair", !.cycles = @ + 1]

TaskStep(t) ==
    /\ task' = t
    /\ last' = Outcome("trade_symbol", "BNBBTC", IF t.pc = "ended" THEN t.err ELSE "running", None)
    /\ UNCHANGED <<binance, OrderVars>>

\* binance_exchange = BinanceExchange(...); session = TradingSession.open(...)
Trade_start ==
    /\ task.pc = "idle"
    /\ TaskStep(NextCycle(task))

\* buy_order = Order(...); pair = BuySellPair.open(session, buy_order)
Trade_open_pair ==
    /\ task.pc = "open_pair"
    /\ \E r \in {"ok", "ValidationError"} :
          TaskStep(IF r = "ok"
                   THEN [task EXCEPT !.pc = "place_opening", !.opening_status = PENDING]
                   ELSE Ended(task, r))

\* pair.opening_order.place_limit(binance_exchange)
Trade_place_opening ==
    /\ task.pc = "place_opening"
    /\ \E r \in {"ok", "ValidationError", "APIError"} :
          TaskStep(IF r = "ok"
                   THEN [task EXCEPT !.pc = "wait_opening", !.orders_placed = @ + 1,
                                     !.opening_status = PLACED]
                   ELSE Ended(task, r))

\* pair.opening_order.block_until_complete_or_timeout(binance_exchange)
Trade_wait_opening ==
    /\ task.pc = "wait_opening"
    /\ \/ \E status \in PlacedStatuses :
             TaskStep([task EXCEPT !.pc = "check_status", !.opening_status = status])
       \/ \E r \in {"ValidationError", "APIError"} : TaskStep(Ended(task, r))

\* if ... in (COMPLETED, CANCELLED_PARTIAL): / elif ... == CANCELLED: continue /
\* else: logger.error(...); raise Exception
Trade_check_status ==
    /\ task.pc = "check_status"
    /\ LET branch == check_status(task.opening_status) IN
          \/ /\ branch = "close"
             /\ TaskStep([task EXCEPT !.pc = "close"])
          \/ /\ branch = "continue"
             /\ task.cycles < MaxCycles
             /\ TaskStep(NextCycle(task))
          \/ /\ branch = "raise"
             /\ TaskStep(Ended(task, "Exception"))

\* sell_order = Order(...); pair.close(sell_order)
Trade_close ==
    /\ task.pc = "close"
    /\ \E r \in {"ok", "ValidationError"} :
          TaskStep(IF r = "ok" THEN [task EXCEPT !.pc = "place_closing"] ELSE Ended(task, r))

\* pair.closing_order.place_limit(binance_exchange)
Trade_place_closing ==
    /\ task.pc = "place_closing"
    /\ \E r \in {"ok", "ValidationError", "APIError"} :
          TaskStep(IF r = "ok"
                   THEN [task EXCEPT !.pc = "wait_closing", !.orders_placed = @ + 1]
                   ELSE Ended(task, r))

\* pair.closing_order.block_until_complete_or_timeout(binance_exchange, timeout=30)
Trade_wait_closing ==
    /\ task.pc = "wait_closing"
    /\ \E r \in {"ok", "ValidationError", "APIError"} :
          TaskStep(IF r = "ok" THEN [task EXCEPT !.pc = "check_aborted"] ELSE Ended(task, r))

\* if self.is_aborted(): return
Trade_check_aborted ==
    /\ task.pc = "check_aborted"
    /\ \/ /\ task.aborted
          /\ TaskStep(Ended(task, "ok"))
       \/ /\ ~task.aborted
          /\ task.cycles < MaxCycles
          /\ TaskStep(NextCycle(task))

\* task.abort() by whoever holds the task's result: the flag is set from outside.
Abort ==
    /\ task.pc \notin {"idle", "ended"}
    /\ ~task.aborted
    /\ task' = [task EXCEPT !.aborted = TRUE]
    /\ last' = Outcome("abort", "BNBBTC", "ok", None)
    /\ UNCHANGED <<binance, OrderVars>>

NextTrade ==
    \/ Trade_start
    \/ Trade_open_pair
    \/ Trade_place_opening
    \/ Trade_wait_opening
    \/ Trade_check_status
    \/ Trade_close
    \/ Trade_place_closing
    \/ Trade_wait_closing
    \/ Trade_check_aborted
    \/ Abort

Init ==
    /\ orders = [o \in Orders |-> NoOrder]
    /\ db_orders = [o \in Orders |-> None]
    /\ sessions = [s \in Sessions |-> NoSession]
    /\ db_sessions = [s \in Sessions |-> None]
    /\ pairs = [p \in Pairs |-> NoPair]
    /\ db_pairs = [p \in Pairs |-> None]
    /\ now = 0
    /\ loop = None
    /\ binance = DefaultExchange
    /\ task = NoTask
    /\ last = Outcome("init", "", "ok", None)

OrderPrices == {None, Some(1)}

NextOrder ==
    \/ \E o \in TrackedOrders :
        \/ Order_init(o, OrderPrices)
        \/ Order_save_call(o)
        \/ Order_get(o)
        \/ Order_update_from_exchange(o, VenueResponses)
        \/ Order_place_limit(o, VenueOrderIds)
        \/ Order_place_market(o, VenueOrderIds)
        \/ Order_cancel(o)

SpecOrder == Init /\ [][NextOrder]_vars

\* The polling loop on an order that was created, possibly stored and read back,
\* and placed.
NextLoop ==
    \/ \E o \in TrackedOrders :
        \/ Order_init(o, OrderPrices)
        \/ Order_save_call(o)
        \/ Order_get(o)
        \/ Order_place_limit(o, VenueOrderIds)
        \/ Order_update_from_exchange(o, VenueResponses)
        \/ Block_start(o)
    \/ Block_poll
    \/ Block_sleep
    \/ Block_cancel

SpecLoop == Init /\ [][NextLoop]_vars

NextSession ==
    \/ \E s \in Sessions :
        \/ TradingSession_init(s)
        \/ TradingSession_open(s)
        \/ TradingSession_save_call(s)
        \/ TradingSession_close(s)
        \/ TradingSession_assign(s)
        \/ TradingSession_set_exchange(s)
    \/ Tick

SpecSession == Init /\ [][NextSession]_vars
\* Pairs are followed with the fields of their orders that pairing reads: the
\* venue reports one filled quantity, orders are created with one price, the
\* opening order is o1 and only o1 is stored and read back.
PairResponses == StatusResponses(VenueStatuses, {MaxQty}, {MaxPrice})
Openers == {"o1"}
PairOrders == {"o1", "o2"}

NextPair ==
    \/ \E o \in PairOrders :
        \/ Order_init(o, {Some(MaxPrice)})
        \/ Order_update_from_exchange(o, PairResponses)
    \/ \E o \in Openers :
        \/ Order_save_call(o)
        \/ Order_get(o)
    \/ \E s \in Sessions :
        \/ TradingSession_open(s)
        \/ TradingSession_close(s)
    \/ \E p \in Pairs :
        \/ \E s \in Sessions, o \in Openers : BuySellPair_open(p, s, o)
        \/ \E o \in PairOrders : BuySellPair_close(p, o)

SpecPair == Init /\ [][NextPair]_vars

\* is_closed and profit are functions of the two orders of a pair: they are applied
\* to a pair p1 of o1 and, when there is a closing order, o2, the two order objects
\* drawn from the values an Order object holds in memory.
\* An object is as the lifecycle operations leave it (members of the Enum classes)
\* or as read back from its stored row (integers, and a primary key).
OrderObjects(o, side) ==
    {[NoOrder EXCEPT !.exists = TRUE, !.status = Member(n), !.side = side,
                     !.price = Some(pr), !.quantity_filled = qf] :
        n \in 1..6, pr \in 1..MaxPrice, qf \in {None} \cup {Some(q) : q \in 0..MaxQty}}
    \cup
    {[NoOrder EXCEPT !.exists = TRUE, !.pk = Some(o), !.status = Value(n),
                     !.side = Value(side.v), !.price = Some(pr), !.quantity_filled = qf] :
        n \in 1..6, pr \in 1..MaxPrice, qf \in {None} \cup {Some(q) : q \in 0..MaxQty}}

InitPairFn ==
    /\ \E first \in OrderObjects("o1", BUY) :
          \/ /\ orders = [o \in Orders |-> IF o = "o1" THEN first ELSE NoOrder]
             /\ pairs = [p \in Pairs |->
                           [exists |-> TRUE, pk |-> Some(p), trading_session |-> Some(p),
                            first_order |-> Some("o1"), second_order |-> None]]
          \/ \E second \in OrderObjects("o2", SELL) :
             /\ orders = [o \in Orders |-> IF o = "o1" THEN first
                                           ELSE IF o = "o2" THEN second ELSE NoOrder]
             /\ pairs = [p \in Pairs |->
                           [exists |-> TRUE, pk |-> Some(p), trading_session |-> Some(p),
                            first_order |-> Some("o1"), second_order |-> Some("o2")]]
    /\ db_orders = [o \in Orders |-> None]
    /\ sessions = [s \in Sessions |-> NoSession]
    /\ db_sessions = [s \in Sessions |-> None]
    /\ db_pairs = [p \in Pairs |-> None]
    /\ now = 0
    /\ loop = None
    /\ binance = DefaultExchange
    /\ task = NoTask
    /\ last = Outcome("init", "", "ok", None)

NextPairFn ==
    \E p \in Pairs :
        \/ BuySellPair_is_closed(p)
        \/ BuySellPair_profit(p)

SpecPairFn == InitPairFn /\ [][NextPairFn]_vars

\* The checks and placements of the exchange are functions of the symbol metadata,
\* the rounding setting and their arguments.
InitExchange ==
    /\ orders = [o \in Orders |-> NoOrder]
    /\ db_orders = [o \in Orders |-> None]
    /\ sessions = [s \in Sessions |-> NoSession]
    /\ db_sessions = [s \in Sessions |-> None]
    /\ pairs = [p \in Pairs |-> NoPair]
    /\ db_pairs = [p \in Pairs |-> None]
    /\ now = 0
    /\ loop = None
    /\ \E symbol_info \in SymbolsOfVenue, threshold \in Thresholds :
          binance = BinanceExchange(symbol_info, threshold)
    /\ task = NoTask
    /\ last = Outcome("init", "", "ok", None)

NextExchange ==
    \/ Exchange_check_price
    \/ Exchange_check_quantity
    \/ Exchange_place_buy_limit_order
    \/ Exchange_place_sell_limit_order
    \/ Exchange_place_buy_market_order
    \/ Exchange_place_sell_market_order

SpecExchange == InitExchange /\ [][NextExchange]_vars

SpecTrade == Init /\ [][NextTrade]_vars

\* update_from_exchange is a function of the order object and of the venue's answer:
\* it is applied once to an order o1 drawn from the objects an Order can be, with a
\* price that is unset, zero (the price a venue reports for a market order, or one
\* passed to the constructor) or positive.
UpdatePrices == {None} \cup {Some(pr) : pr \in 0..MaxPrice}

UpdateResponses ==
    StatusResponses(VenueStatuses \cup {"UNKNOWN"}, 0..MaxQty, {0, MaxPrice})
    \cup {[kind |-> "exception", status |-> "NEW", executedQty |-> 0, price |-> MaxPrice]}

InitUpdate ==
    /\ \E n \in 1..6, price \in UpdatePrices, side \in {BUY, SELL}, stored \in BOOLEAN :
          orders = [o \in Orders |->
                      IF o \in TrackedOrders
                      THEN [NoOrder EXCEPT !.exists = TRUE,
                                           !.pk = IF stored THEN Some(o) ELSE None,
                                           !.status = IF stored THEN Value(n) ELSE Member(n),
                                           !.side = IF stored THEN Value(side.v) ELSE side,
                                           !.price = price]
                      ELSE NoOrder]
    /\ db_orders = [o \in Orders |-> None]
    /\ sessions = [s \in Sessions |-> NoSession]
    /\ db_sessions = [s \in Sessions |-> None]
    /\ pairs = [p \in Pairs |-> NoPair]
    /\ db_pairs = [p \in Pairs |-> None]
    /\ now = 0
    /\ loop = None
    /\ binance = DefaultExchange
    /\ task = NoTask
    /\ last = Outcome("init", "", "ok", None)

NextUpdate ==
    \E o \in TrackedOrders : Fresh /\ Order_update_from_exchange(o, UpdateResponses)

SpecUpdate == InitUpdate /\ [][NextUpdate]_vars

\* close is followed on a pair p1 of the opening order o1 with two orders, o2 and
\* o3, that can be passed to it one after the other.  The opening order is an
\* object as the lifecycle operations leave it or as read back from its row; o2 is
\* in any status, o3 has not been placed.
Closers == {"o2", "o3"}

InitClose ==
    /\ \E first \in OrderObjects("o1", BUY), n \in 1..6, side2 \in {BUY, SELL},
          side3 \in {BUY, SELL} :
          /\ first.price = Some(MaxPrice) /\ first.quantity_filled = Some(MaxQty)
          /\ orders = [o \in Orders |->
                         IF o = "o1" THEN first
                         ELSE IF o = "o2"
                         THEN [NoOrder EXCEPT !.exists = TRUE, !.status = Member(n),
                                              !.side = side2, !.price = Some(MaxPrice)]
                         ELSE [NoOrder EXCEPT !.exists = TRUE, !.side = side3,
                                              !.price = Some(MaxPrice)]]
    /\ pairs = [p \in Pairs |->
                  [exists |-> TRUE, pk |-> Some(p), trading_session |-> Some(p),
                   first_order |-> Some("o1"), second_order |-> None]]
    /\ db_orders = [o \in Orders |-> None]
    /\ sessions = [s \in Sessions |-> NoSession]
    /\ db_sessions = [s \in Sessions |-> None]
    /\ db_pairs = [p \in Pairs |-> None]
    /\ now = 0
    /\ loop = None
    /\ binance = DefaultExchange
    /\ task = NoTask
    /\ last = Outcome("init", "", "ok", None)

NextClose ==
    \E p \in Pairs, o \in Closers : BuySellPair_close(p, o)

SpecClose == InitClose /\ [][NextClose]_vars

Next ==
    NextOrder \/ NextLoop \/ NextSession \/ NextPair \/ NextPairFn \/ NextExchange \/ NextTrade
    \/ NextUpdate \/ NextClose

Spec == Init /\ [][Next]_vars

\* ------------------------------------------------------------------ claims
TerminalCodes == {COMPLETED.v, CANCELLED.v, CANCELLED_PARTIAL.v}

\* The operations of the order lifecycle (not the plain save or the read-back).
LifecycleOps ==
    {"place_limit", "place_market", "cancel", "update_from_exchange",
     "block_until_complete_or_timeout"}

\* C1: no placeLimit/placeMarket, cancel, updateFromVenue or polling step changes
\* the status of an order whose status is COMPLETED, CANCELLED or CANCELLED_PARTIAL.
C1_TerminalStatesAreSinks ==
    [][last'.op \in LifecycleOps =>
          \A o \in Orders :
             orders[o].status.v \in TerminalCodes =>
                orders'[o].status.v = orders[o].status.v]_vars

SessionStoredClosed(s) == db_sessions[s] # None /\ db_sessions[s][1].time_closed # None

\* C3: once the stored TradingSession is closed, no step changes the stored row (so
\* it never reads as open again), and every save() or close() on it fails with a
\* validation error.
C3_ClosedSessionImmutable ==
    [][\A s \in Sessions :
          SessionStoredClosed(s) =>
             /\ db_sessions'[s] = db_sessions[s]
             /\ (last'.op \in {"TradingSession.save", "TradingSession.close"}
                    /\ last'.target = s) => last'.err = "ValidationError"]_vars

\* C3 witness: a save was refused on a closed session whose symbol was changed and
\* whose time_closed was cleared in memory.
C3_Witness ==
    \E s \in Sessions :
       /\ SessionStoredClosed(s)
       /\ last.op = "TradingSession.save" /\ last.target = s /\ last.err = "ValidationError"
       /\ sessions[s].symbol # db_sessions[s][1].symbol
       /\ sessions[s].time_closed = None

\* C4: open(venue, symbol) binds the handle to the venue it is given, and once a
\* handle is bound every assignment to it fails with a validation error and leaves
\* it bound to the same venue.
C4_ExchangeAssignedOnce ==
    [][\A s \in Sessions :
          /\ (last'.op = "TradingSession.open" /\ last'.target = s) =>
                (last'.err = "ok" /\ sessions'[s].exchange = last'.ret)
          /\ sessions[s].exchange # None =>
                /\ sessions'[s].exchange = sessions[s].exchange
                /\ (last'.op = "set_exchange" /\ last'.target = s) =>
                      last'.err = "ValidationError"]_vars

\* C4 witness: a session made by open() refused the assignment of another venue.
C4_Witness ==
    \E s \in Sessions :
       /\ last.op = "set_exchange" /\ last.target = s /\ last.err = "ValidationError"
       /\ sessions[s].pk # None
       /\ sessions[s].exchange # None
       /\ sessions[s].exchange # last.ret

\* C5: BuySellPair.open(session, order) fails and stores no pair when the session
\* is closed or the order is not PENDING; otherwise it stores a pair whose opening
\* order is the order, whose session is the session given and whose closing order
\* is empty, and leaves the order unplaced.
C5_OpenStoresPairOfSession ==
    [][\A p \in Pairs :
          (last'.op = "BuySellPair.open" /\ last'.target = p) =>
             LET s == last'.ret[1]
                 o == last'.ret[2]
             IN IF ~is_open(sessions[s].time_closed) \/ orders[o].status.v # PENDING.v
                THEN last'.err = "ValidationError" /\ db_pairs'[p] = None
                ELSE /\ last'.err = "ok"
                     /\ db_pairs'[p] = Some([trading_session |-> Some(s),
                                             first_order |-> Some(o),
                                             second_order |-> None])
                     /\ orders'[o] = orders[o]]_vars

ClosedNotPlainCancelled(status) == status.v \in {COMPLETED.v, CANCELLED_PARTIAL.v}

\* C6: close(order) fails and leaves closing_order unchanged when the order has the
\* side of the opening order; it succeeds and stores the order when the sides
\* differ, the opening order is COMPLETED or CANCELLED_PARTIAL and the order is not
\* closed; and a stored closing order has the side opposite to the opening order's.
C6_CloseChecksSides ==
    [][\A p \in Pairs :
          /\ (last'.op = "BuySellPair.close" /\ last'.target = p) =>
                LET first_order == orders[pairs[p].first_order[1]]
                    o == last'.ret[1]
                IN /\ first_order.side.v = orders[o].side.v =>
                         (last'.err = "ValidationError" /\ pairs'[p] = pairs[p])
                   /\ ( /\ first_order.side.v # orders[o].side.v
                        /\ ClosedNotPlainCancelled(first_order.status)
                        /\ orders[o].status.v \notin TerminalCodes ) =>
                         (last'.err = "ok" /\ pairs'[p].second_order = Some(o))
          /\ pairs'[p].second_order # None =>
                orders'[pairs'[p].second_order[1]].side.v
                   # orders'[pairs'[p].first_order[1]].side.v]_vars

\* C7: close(order) is rejected unless the opening order is COMPLETED or
\* CANCELLED_PARTIAL: an opening order that is PENDING, PLACED, FILLING or plain
\* CANCELLED never gets a closing order.
C7_CloseNeedsFilledOpener ==
    [][\A p \in Pairs :
          (last'.op = "BuySellPair.close" /\ last'.target = p
              /\ ~ClosedNotPlainCancelled(orders[pairs[p].first_order[1]].status)) =>
             (last'.err = "ValidationError" /\ pairs'[p] = pairs[p])]_vars

\* What the pair's isClosed is stated to be, on the values of the statuses.
StatedIsClosed(first_order, second_order) ==
    \/ first_order.status.v = CANCELLED.v
    \/ /\ ClosedNotPlainCancelled(first_order.status)
       /\ second_order # None
       /\ second_order[1].status.v \in TerminalCodes

\* C8: is_closed never fails, and it yields true exactly when the opening order is
\* CANCELLED, or is COMPLETED or CANCELLED_PARTIAL with a closing order that is
\* closed ("None" counts as false).
C8_IsClosedValue ==
    \A p \in Pairs :
       (last.op = "is_closed" /\ last.target = p) =>
          /\ last.err = "ok"
          /\ (last.ret = Some("True")) <=>
                StatedIsClosed(orders[pairs[p].first_order[1]],
                               OrderOf(pairs[p].second_order))

\* C9: whenever profit() yields a value the pair is closed, and the value is
\*   (closer.quantity_filled * closer.price) / (opener.quantity_filled * opener.price) - 1
C9_ProfitIsNotionalRatio ==
    \A p \in Pairs :
       (last.op = "profit" /\ last.target = p /\ last.ret # None) =>
          LET first_order == orders[pairs[p].first_order[1]]
              second_order == OrderOf(pairs[p].second_order)
              cn == second_order[1].quantity_filled[1] * second_order[1].price[1]
              on == first_order.quantity_filled[1] * first_order.price[1]
          IN /\ StatedIsClosed(first_order, second_order)
             /\ second_order # None
             /\ on # 0
             \* num / den = (cn - on) / on
             /\ last.ret[1].num * on = (cn - on) * last.ret[1].den

\* C10: a lifecycle operation moves an order into CANCELLED_PARTIAL only from
\* FILLING.
C10_CancelledPartialOnlyFromFilling ==
    [][last'.op \in LifecycleOps =>
          \A o \in Orders :
             (orders'[o].status.v = CANCELLED_PARTIAL.v
                 /\ orders[o].status.v # CANCELLED_PARTIAL.v) =>
                orders[o].status.v = FILLING.v]_vars

\* C10 witness: a cancel whose status query was answered left the order
\* CANCELLED_PARTIAL.
C10_Witness ==
    \E o \in Orders :
       /\ last.op = "cancel" /\ last.target = o /\ last.err = "ok"
       /\ last.ret[1].cancels = 1
       /\ orders[o].status = CANCELLED_PARTIAL

\* C11: a lifecycle operation moves an order into FILLING only from PLACED, and
\* into PLACED only from PENDING.
C11_FillingOnlyFromPlaced ==
    [][last'.op \in LifecycleOps =>
          \A o \in Orders :
             /\ (orders'[o].status.v = FILLING.v /\ orders[o].status.v # FILLING.v) =>
                   orders[o].status.v = PLACED.v
             /\ (orders'[o].status.v = PLACED.v /\ orders[o].status.v # PLACED.v) =>
                   orders[o].status.v = PENDING.v]_vars

\* C12: in every state an order whose status is CANCELLED has a filled quantity of
\* zero (or none recorded).
C12_CancelledNeverFilled ==
    \A o \in Orders :
       (orders[o].exists /\ orders[o].status.v = CANCELLED.v) =>
          orders[o].quantity_filled \in {None, Some(0)}

\* The table of venue statuses, on the numeric codes of the statuses.
StatedStatus(response_status, last_code) ==
    IF response_status = "NEW" THEN PLACED.v
    ELSE IF response_status = "PARTIALLY_FILLED" THEN FILLING.v
    ELSE IF response_status = "FILLED" THEN COMPLETED.v
    ELSE IF response_status \in {"CANCELED", "EXPIRED"}
    THEN (IF last_code = FILLING.v THEN CANCELLED_PARTIAL.v ELSE CANCELLED.v)
    ELSE IF response_status = "PENDING_CANCEL" THEN last_code
    ELSE CANCELLED.v

\* The answer to the status query of the step just taken, if it made one.
Answered(l) == l.ret # None /\ "response" \in DOMAIN l.ret[1] /\ l.ret[1].response # None

\* C13: an update from the venue that succeeds leaves the order with the status the
\* table gives for the venue status and the status the order had, and with the
\* filled quantity the venue reported.
C13_StatusTable ==
    [][(last'.op \in {"update_from_exchange", "cancel"} /\ last'.err = "ok"
           /\ Answered(last')) =>
          LET o == last'.target
              r == last'.ret[1].response[1]
          IN /\ r.status \in VenueStatuses
             /\ orders'[o].status.v = StatedStatus(r.status, orders[o].status.v)
             /\ orders'[o].quantity_filled = Some(r.executedQty)]_vars

\* C13 witness: a FILLING order was updated on a CANCELED report with a filled
\* quantity above zero.
C13_Witness ==
    /\ last.op = "update_from_exchange" /\ last.err = "ok"
    /\ last.ret[1].response[1].status = "CANCELED"
    /\ last.ret[1].response[1].executedQty = MaxQty
    /\ orders[last.target].status = CANCELLED_PARTIAL
    /\ orders[last.target].quantity_filled = Some(MaxQty)

\* C14: when the venue answers a status query with a status outside the vocabulary,
\* the operation (update, cancel or the polling loop) fails with an error and leaves
\* the order's status, filled quantity and price as they were.
C14_UnknownStatusRaises ==
    [][(Answered(last') /\ last'.ret[1].response[1].kind = "status"
           /\ last'.ret[1].response[1].status \notin VenueStatuses) =>
          LET o == last'.target IN
             /\ last'.err = "APIError"
             /\ loop' = None
             /\ orders'[o].status = orders[o].status
             /\ orders'[o].quantity_filled = orders[o].quantity_filled
             /\ orders'[o].price = orders[o].price]_vars

\* C14 witness: the polling loop ended on an unknown status after an earlier poll
\* had recorded a filled quantity.
C14_Witness ==
    /\ last.op = "block_until_complete_or_timeout" /\ last.err = "APIError"
    /\ Answered(last)
    /\ last.ret[1].response[1].kind = "status"
    /\ last.ret[1].response[1].status \notin VenueStatuses
    /\ last.ret[1].response[1].executedQty = 0
    /\ last.ret[1].queries > 1
    /\ orders[last.target].status = FILLING
    /\ orders[last.target].quantity_filled = Some(MaxQty)

\* A step of the polling loop that made a status query.
PollStep == loop # None /\ loop[1].pc = "poll" /\ last'.op = "block_until_complete_or_timeout"

\* C15: a poll that observes COMPLETED ends the loop with a normal return, without a
\* cancel_order call; when it is the first poll the loop has made one status query.
C15_CompletedReturnsAtOnce ==
    [][(PollStep /\ last'.err # "APIError"
           /\ orders'[loop[1].order].status = COMPLETED) =>
          /\ loop' = None
          /\ last'.err = "ok"
          /\ last'.ret[1].cancels = 0
          /\ loop[1].queries = 0 => last'.ret[1].queries = 1]_vars

\* C16: while the polls observe PLACED the loop goes on without a cancel_order call
\* and turns to the cancellation exactly when the elapsed time exceeds the timeout;
\* the cancellation of a PLACED order calls cancel_order once and ends the loop.
C16_CancelOnceAfterTimeout ==
    [][(loop # None /\ last'.op = "block_until_complete_or_timeout") =>
          LET l == loop[1]
              o == l.order
          IN /\ (l.pc = "poll" /\ last'.err # "APIError" /\ orders'[o].status = PLACED) =>
                   /\ loop' # None
                   /\ last'.ret[1].cancels = 0
                   /\ loop'[1].pc = "cancel" <=> loop'[1].elapsed > l.timeout
             /\ l.pc = "sleep" =>
                   (loop' # None /\ loop'[1].pc = "poll" /\ last'.ret[1].cancels = 0)
             /\ (l.pc = "cancel" /\ orders[o].status = PLACED) =>
                   /\ l.elapsed > l.timeout
                   /\ last'.ret[1].cancels = 1
                   /\ loop' = None]_vars

\* C17: a poll that observes a terminal status ends the loop (no further status
\* query follows), and whenever the loop returns normally the status is terminal.
C17_PollsUntilTerminal ==
    [][(loop # None /\ last'.op = "block_until_complete_or_timeout") =>
          LET o == loop[1].order IN
             /\ (loop[1].pc = "poll" /\ last'.err # "APIError"
                    /\ orders'[o].status.v \in TerminalCodes) => loop' = None
             /\ (loop' = None /\ last'.err = "ok") =>
                   orders'[o].status.v \in TerminalCodes]_vars

PlacementOps ==
    {"place_buy_limit_order", "place_sell_limit_order",
     "place_buy_market_order", "place_sell_market_order"}

CheckErrors == {"OrderPriceInvalid", "LotSizeInvalid", "ExcessiveRoundingError", "UnknownSymbol"}

\* C18: a placement sends a request to the client only when the quantity check
\* and, for a limit order, the price check succeed on its arguments; the request
\* carries the values the checks returned; when a check fails the placement fails
\* with the error of the check and the client receives nothing.
C18_ChecksBeforePlacement ==
    last.op \in PlacementOps =>
       LET a == last.target
           out == last.ret[1]
           q == check_quantity(binance, a.symbol, a.quantity)
           p == IF a.price = None
                THEN [err |-> "ok", ret |-> None]
                ELSE check_price(binance, a.symbol, a.price[1])
       IN IF p.err = "ok" /\ q.err = "ok"
          THEN /\ out.request # None
               /\ out.request[1].quantity = q.ret[1]
               /\ out.request[1].price = p.ret
               /\ out.request[1].test = a.test
               /\ out.request[1].symbol = a.symbol
               /\ out.request[1].type = (IF a.price = None THEN "MARKET" ELSE "LIMIT")
          ELSE /\ out.request = None
               /\ last.err \in CheckErrors
               /\ last.err \in {p.err, q.err}

\* C18 witness: a limit order that is not a test was sent with a price that the
\* check had rounded.
C18_Witness ==
    /\ last.op = "place_sell_limit_order" /\ last.err = "ok"
    /\ ~last.target.test
    /\ last.ret[1].request # None
    /\ last.ret[1].request[1].price # last.target.price
    /\ last.ret[1].orderId = Some("id1")

\* The bounds and the step a check of the listed symbol reads.
FilterOf(op) ==
    LET i == binance.symbols["BNBBTC"] IN
    IF op = "check_price"
    THEN [lo |-> i.min_price, hi |-> i.max_price, step |-> i.price_step]
    ELSE [lo |-> i.min_quantity, hi |-> i.max_quantity, step |-> i.quantity_step]

C20_RoundingIdempotent ==
    (last.op = "check_price" /\ last.target.symbol = "BNBBTC") =>
       LET i == binance.symbols["BNBBTC"]
           v == last.target.value
           aligned == v >= i.min_price /\ v <= i.max_price /\ v % i.price_step.value = 0
           again == check_price(binance, "BNBBTC", last.ret[1])
       IN /\ aligned => (last.err = "ok" /\ last.ret = Some(v))
          /\ (aligned /\ last.err = "ok") => again = [err |-> "ok", ret |-> Some(v)]
          /\ ( /\ last.err = "ok"
               /\ i.min_price % i.price_step.value = 0
               /\ i.max_price % i.price_step.value = 0 ) =>
                again = [err |-> "ok", ret |-> last.ret]

\* C20 witness: a price that is a multiple of a step of 5 units, above the lower
\* bound, was checked and returned.
C20_Witness ==
    /\ last.op = "check_price" /\ last.err = "ok"
    /\ last.target.symbol = "BNBBTC"
    /\ binance.symbols["BNBBTC"].price_step.value = 5
    /\ binance.symbols["BNBBTC"].min_price = 2
    /\ last.target.value = 10
    /\ last.ret = Some(10)

\* The multiple of s nearest to x, a tie going to the even multiple.
NearestMultiple(x, s) ==
    LET n == x \div s
        r == x % s
    IN IF 2 * r < s THEN n * s
       ELSE IF 2 * r > s THEN (n + 1) * s
       ELSE IF n % 2 = 0 THEN n * s ELSE (n + 1) * s

\* C21: the value that check_price or check_quantity returns is the multiple of the
\* symbol's step nearest to the value it was given, a tie going to the even
\* multiple, for every step the metadata carries (5 and 10 units included).
C21_NearestMultipleOfStep ==
    (last.op \in {"check_price", "check_quantity"} /\ last.err = "ok") =>
       last.ret = Some(NearestMultiple(last.target.value, FilterOf(last.op).step.value))

C23_HaltsWithoutFurtherOrder ==
    [][
        /\ ( /\ task.pc = "check_status"
             /\ last'.op = "trade_symbol"
             /\ task.opening_status \notin {COMPLETED, CANCELLED_PARTIAL, CANCELLED} ) =>
               ( /\ task'.pc = "ended" /\ task'.err = "Exception"
                 /\ task'.orders_placed = task.orders_placed )
        /\ (last'.op = "trade_symbol" /\ last'.err \in {"ValidationError", "APIError"}) =>
               ( /\ task'.pc = "ended" /\ task'.err = last'.err
                 /\ task'.orders_placed = task.orders_placed )
        /\ (task.pc = "ended") => (task' = task)
      ]_vars

\* C23 witness: the polling call returned with the opening order still PLACED and
\* the task ended with the exception of the last branch, one order placed.
C23_Witness ==
    /\ task.pc = "ended" /\ task.err = "Exception"
    /\ task.opening_status = PLACED
    /\ task.orders_placed = 1

\* C24: place_limit and place_market on an order whose status is COMPLETED,
\* CANCELLED or CANCELLED_PARTIAL, and place_limit on an order without a price, fail
\* with a validation error and send nothing to the venue; a placement that succeeds
\* leaves the order with the order id the venue returned, status PLACED and
\* time_placed set, and the stored row has that status and that id.
C24_PlacementContract ==
    [][\A o \in Orders :
          (last'.op \in {"place_limit", "place_market"} /\ last'.target = o) =>
             /\ ( \/ orders[o].status.v \in TerminalCodes
                  \/ (last'.op = "place_limit" /\ orders[o].price = None) ) =>
                   (last'.err = "ValidationError" /\ ~last'.ret[1].sent)
             /\ (last'.err = "ok") =>
                   ( /\ last'.ret[1].orderId # None
                     /\ orders'[o].exchange_order_id = last'.ret[1].orderId
                     /\ orders'[o].status.v = PLACED.v
                     /\ orders'[o].time_placed # None
                     /\ db_orders'[o] # None
                     /\ db_orders'[o][1].status.v = PLACED.v
                     /\ db_orders'[o][1].exchange_order_id = last'.ret[1].orderId )]_vars

\* C25: an update_from_exchange, a cancel or a step of the polling loop that takes
\* an order into COMPLETED, CANCELLED or CANCELLED_PARTIAL leaves time_closed set on
\* the order, in memory or in its stored row; time_closed is unset as long as the
\* order is in no such status; and once set it never changes.
C25_TimeClosedSetOnce ==
    [][\A o \in Orders :
          /\ ( /\ last'.op \in {"update_from_exchange", "cancel",
                              "block_until_complete_or_timeout"}
               /\ last'.target = o
               /\ orders[o].status.v \notin TerminalCodes
               /\ orders'[o].status.v \in TerminalCodes ) =>
                ( \/ orders'[o].time_closed # None
                  \/ (db_orders'[o] # None /\ db_orders'[o][1].time_closed # None) )
          /\ (orders'[o].status.v \notin TerminalCodes) => (orders'[o].time_closed = None)
          /\ (orders[o].time_closed # None) =>
                (orders'[o].time_closed = orders[o].time_closed)]_vars

\* The venue raised in the operation whose outcome is l: the placement was sent and
\* no order id came back, the cancel request raised, or the status query raised.
VenueRaised(l) ==
    \/ /\ l.op \in {"place_limit", "place_market"}
       /\ l.ret[1].sent /\ l.ret[1].orderId = None
    \/ /\ l.op = "cancel"
       /\ l.ret[1].cancels = 1
       /\ (l.ret[1].queries = 0 \/ l.ret[1].response[1].kind = "exception")
    \/ /\ l.op = "update_from_exchange"
       /\ l.ret[1].response[1].kind = "exception"

\* C26: when the venue raises in a placement, a cancel or a status query the
\* operation ends with the venue's error, and after a failed placement the order
\* and its stored row are as they were before the call (a PENDING order is still
\* PENDING, without order id and time_placed, and nothing is stored).
C26_VenueErrorsPropagate ==
    [][VenueRaised(last') =>
          /\ last'.err = "APIError"
          /\ last'.op \in {"place_limit", "place_market"} =>
                (orders' = orders /\ db_orders' = db_orders)]_vars

\* C26 witness: the venue raised in the placement of a PENDING order that was never
\* stored; the order is still PENDING, without id, and nothing is stored.
C26_Witness ==
    /\ last.op = "place_limit" /\ last.err = "APIError"
    /\ last.ret[1].sent
    /\ orders[last.target].status = PENDING
    /\ orders[last.target].exchange_order_id = None
    /\ orders[last.target].time_placed = None
    /\ db_orders[last.target] = None

\* C27: update_from_exchange leaves a price that was set before the call as it
\* was; on an order without a price it sets the price, to the one the venue
\* reports, only when it leaves the order COMPLETED or CANCELLED_PARTIAL, and in
\* PLACED, FILLING and CANCELLED the price stays unset.
C27_PriceBackfill ==
    [][\A o \in Orders :
          (last'.op = "update_from_exchange" /\ last'.target = o) =>
             /\ (orders[o].price # None) => (orders'[o].price = orders[o].price)
             /\ (orders[o].price = None /\ orders'[o].price # None) =>
                   ( /\ orders'[o].status \in {COMPLETED, CANCELLED_PARTIAL}
                     /\ orders'[o].price = Some(last'.ret[1].response[1].price) )
             /\ ( /\ orders[o].price = None
                  /\ last'.err = "ok"
                  /\ orders'[o].status \in {PLACED, FILLING, CANCELLED} ) =>
                   (orders'[o].price = None)]_vars

\* C28: block_until_complete_or_timeout ends whatever the venue reports: every pass
\* through the loop takes time, so a poll starts at most one sleep after the timeout
\* and the number of polls is bounded by the time elapsed; the loop never sleeps once
\* a poll has ended after the timeout; and the timeout branch ends the call with one
\* cancel request and at most one more status query.
C28_LoopTerminates ==
    [][loop # None =>
          LET l == loop[1] IN
          /\ (l.pc = "poll") => (l.elapsed <= l.timeout + 1 /\ l.queries <= l.elapsed)
          /\ (l.pc = "poll" /\ l.elapsed > l.timeout) =>
                (loop' = None \/ loop'[1].pc = "cancel")
          /\ (l.pc = "sleep") => (l.elapsed <= l.timeout)
          /\ (l.pc = "cancel") =>
                ( /\ loop' = None
                  /\ last'.err # "running"
                  /\ last'.ret[1].cancels <= 1
                  /\ last'.ret[1].queries <= l.queries + 1 )]_vars

\* C28 witness: an order that the venue kept reporting as not filled went through
\* two polls, was cancelled after the timeout and reconciled, and the call returned.
C28_Witness ==
    /\ loop = None
    /\ last.op = "block_until_complete_or_timeout" /\ last.err = "ok"
    /\ last.ret[1].cancels = 1
    /\ last.ret[1].queries = 3
    /\ last.ret[1].response[1].status = "PENDING_CANCEL"

\* C29: when block_until_complete_or_timeout takes its timeout branch and calls
\* cancel, the order is not COMPLETED, CANCELLED or CANCELLED_PARTIAL, and the call
\* does not end with the validation error of a cancel on a closed order.
C29_CancelOnlyOpenOrders ==
    [][(loop # None /\ loop[1].pc = "cancel") =>
          /\ orders[loop[1].order].status.v \notin TerminalCodes
          /\ last'.err # "ValidationError"]_vars

\* C30: once a pair has a closing order, no step replaces it: a later close with
\* another order leaves the stored closing order as it is.
C30_CloserAssignedOnce ==
    [][\A p \in Pairs :
          (pairs[p].second_order # None) =>
             (pairs'[p].second_order = pairs[p].second_order)]_vars

\* C31: place_limit or place_market on an order that is PLACED or FILLING sends
\* nothing to the venue and leaves the stored order id and the status as they are.
C31_SubmittedAtMostOnce ==
    [][\A o \in Orders :
          ( /\ last'.op \in {"place_limit", "place_market"}
            /\ last'.target = o
            /\ orders[o].status.v \in {PLACED.v, FILLING.v} ) =>
             ( /\ ~last'.ret[1].sent
               /\ orders'[o].exchange_order_id = orders[o].exchange_order_id
               /\ orders'[o].status = orders[o].status )]_vars
====
